---- MODULE Spec2Model ----
(***************************************************************************)
(* Verification model of ArchipelagoFolio:                                 *)
(*   - the MapboxMap component and its cinematic tour frame loop,          *)
(*   - the useSectionVisibility hook (handleIntersection),                 *)
(*   - the useMapAnimation hook (flyToRegion).                             *)
(* The tour clock animationTime is a double that grows by 1.0/60.0 per      *)
(* frame; the model holds it as the number n of additions since the last   *)
(* reset.  The double sum of n additions of 1.0/60.0 lies just below n/60  *)
(* at n = 240, 300 and 360 (it is 4 - 9e-15 at n = 240), so against the    *)
(* durations 4.0, 5.0 and 6.0 the comparison `animationTime < duration`    *)
(* is n <= 60 * duration and `animationTime > duration` is                 *)
(* n > 60 * duration.                                                      *)
(***************************************************************************)
EXTENDS Integers, Sequences, FiniteSets, TLC

\* ------------------------------------------------------------------ bounds
MaxLoops == 2
MaxMaps == 2
\* frames a closure runs in the specification of the whole component
ShortRun == 6
\* sections handed to useSectionVisibility, in page order
NumSections == 3
\* entries one IntersectionObserver callback delivers
MaxEntries == 1
\* flyToRegion calls
MaxFlights == 3
\* coordinates and altitudes handed to lerp lie in -MaxCoord..MaxCoord
MaxCoord == 2
\* the parameter t handed to lerp and to the easings is k/TSteps, k in
\* 0..TSteps
TSteps == 4
\* legacy component: animation frame handles in use at one time
MaxHandles == 3
\* legacy component: startHoverAnimation timers pending at one time
MaxHoverTimers == 2
\* legacy component: regions the parent passes as initialRegion
NumRegions == 2
\* AnimationOrchestrator: queue() calls
MaxQueue == 2
\* AnimationOrchestrator: play() calls
MaxPlays == 2
\* ContactSection: dismiss timers pending at one time
MaxCopyTimers == 3
\* animationUtils: the wait of debounce and the limit of throttle are
\* 1..MaxWait ticks
MaxWait == 2
\* animationUtils: calls of a debounced or throttled function
MaxCalls == 4
\* useSectionVisibility: the observers are created at most this many times
MaxObservers == 3
\* useScrollProgress: totalSections is 1..MaxSections
MaxSections == 4
\* useScrollProgress: scrollYProgress is k/ScrollSteps, k in 0..ScrollSteps
ScrollSteps == 30

\* -------------------------------------------------------------- constants
\* `animationTime += 1.0 / 60.0; // 60 FPS`
FramesPerSecond == 60
\* `threshold = 0.3`, in tenths like every intersection ratio of the model
threshold == 3
\* `setTimeout(() => setCopiedItem(null), 2000)`, in ticks of 500 ms
copiedDelay == 4

\* ------------------------------------------------- MapboxMap: the tour data
\* durations (seconds) of the entries of `animations`, in order
animations == <<4, 6, 5, 5, 6, 4, 5, 5>>

NumAnimations == Len(animations)

\* current.duration of the entry at 0-based index i, in frames
duration(i) == animations[i + 1] * FramesPerSecond

RECURSIVE SumDurations(_)
SumDurations(i) == IF i = 0 THEN 0 ELSE duration(i - 1) + SumDurations(i - 1)

\* sum(d_i), in frames
TotalDuration == SumDurations(NumAnimations)

\* frames one pass through all segments takes in the code
Period == TotalDuration + NumAnimations

MaxFrames == 2 * Period + 1

NoPush ==
    [map |-> 0, ready |-> FALSE, errored |-> FALSE, flying |-> FALSE]

VARIABLES
    mounted,        \* the MapboxMap component is mounted
    mapRef,         \* mapRef.current: 0 is null, n > 0 the n-th map instance
    mapsCreated,    \* number of mapboxgl.Map instances created so far
    loadFired,      \* the 'load' event of the current map has fired
    styleLoaded,    \* what mapRef.current.isStyleLoaded() returns
    isLoaded,       \* React state isLoaded
    error,          \* React state error is non-null
    timers,         \* pending setTimeout(..., 3000) auto-start timers
    loops,          \* the closures of startCinematicTour with a frame callback
                    \* outstanding, in requestAnimationFrame queue order
    lastPush,       \* the latest setFreeCameraOptions call: the map it went
                    \* to, isStyleLoaded() and the error state at that moment
    loopMaps,       \* for each closure of loops, the map instance that was
                    \* mapRef.current when startCinematicTour created it
    uncaught,       \* an exception thrown by the map has left a function of
                    \* the component uncaught
    flying          \* the map performs the flight of a flyTo call

VARIABLES
    visibleSections,     \* useSectionVisibility: state visibleSections
    activeSection,       \* state activeSection, 0 is null
    sectionProgress,     \* state sectionProgress: section -> ratio (tenths)
    lastIsIntersecting,  \* section -> isIntersecting of its latest entry
    prevActiveSection,   \* activeSection before the latest callback
    sectionChanges       \* onSectionChange calls of the latest callback

VARIABLES
    hookMounted,         \* useMapAnimation is mounted
    mapInstance,         \* prop mapInstance: 0 is null
    isAnimatingRef,      \* isAnimatingRef.current
    animationPromiseRef, \* animationPromiseRef.current: 0 is null, else the
                         \* promise whose resolve/reject it holds
    promises,            \* the promises flyToRegion returned, in call order
    listeners            \* promises whose onMoveEnd/onError pair is
                         \* registered on the map

VARIABLES
    kernel               \* the latest call of lerp or of an easing function:
                         \* its name, its arguments and what it returned

kernelVars == <<kernel>>

VARIABLES
    animationQueue,      \* this.animationQueue: the configs, in queue order
    activeAnimations,    \* this.activeAnimations: the ids it holds
    isPlaying,           \* this.isPlaying
    plays,               \* the play() calls made so far, in call order: the
                         \* array each one iterates, its timers, what it has
                         \* done so far, and what stop() found it at
    queueCalls           \* the number of queue() calls made so far

VARIABLES
    copiedItem,          \* ContactSection state copiedItem: "" is null
    dismissTimers,       \* ticks left of each pending
                         \* setTimeout(() => setCopiedItem(null)), oldest first
    lastCopied,          \* the label of the latest successful copy
    sinceCopy            \* ticks since the latest successful copy, counted
                         \* up to copiedDelay

VARIABLES
    debWait,             \* wait of the debounced function: 0 before
                         \* animationUtils.debounce(func, wait) is called
    timeout,             \* the closure's `timeout`: 0 is undefined, else the
                         \* id of the timer the latest call has set
    debTimers,           \* the pending timers: id, ticks left, args
    debCalls,            \* calls of the debounced function so far
    debLastArgs,         \* the args of the latest call
    debSinceCall,        \* ticks since the latest call, up to debWait + 1
    debBurst,            \* calls of the burst the latest call belongs to
    debInvoked           \* the invocations of func since the latest call:
                         \* their args and debSinceCall when they were made

debVars == <<debWait, timeout, debTimers, debCalls, debLastArgs, debSinceCall,
             debBurst, debInvoked>>

VARIABLES
    thrLimit,            \* limit of the throttled function: 0 before
                         \* animationUtils.throttle(func, limit) is called
    inThrottle,          \* the closure's `inThrottle` (undefined is FALSE)
    thrTimers,           \* ticks left of the pending
                         \* setTimeout(() => (inThrottle = false)) timers
    thrCalls,            \* calls of the throttled function so far
    thrSinceInvoke,      \* ticks since func was last invoked, up to thrLimit
    thrLastGap           \* ticks between the two latest invocations of
                         \* func: -1 before the second invocation

thrVars == <<thrLimit, inThrottle, thrTimers, thrCalls, thrSinceInvoke,
             thrLastGap>>

VARIABLES
    totalSections,       \* argument of useScrollProgress: 0 before the hook
                         \* is mounted
    scrollYProgress,     \* the motion value, as k of k/ScrollSteps
    currentSection       \* state currentSection

scrollVars == <<totalSections, scrollYProgress, currentSection>>

VARIABLES
    sections,            \* prop sections of useSectionVisibility
    observersRef,        \* observersRef.current: section -> the observer
                         \* (the number of its creation) made for it
    elementsRef,         \* elementsRef.current: the sections it has a key for
    document,            \* the sections whose element is in the DOM
    observing            \* <<observer, section>>: the observer is connected
                         \* and observes the section's element

obsVars == <<sections, observersRef, elementsRef, document, observing>>

clipVars == <<copiedItem, dismissTimers, lastCopied, sinceCopy>>

orchVars == <<animationQueue, activeAnimations, isPlaying, plays, queueCalls>>

VARIABLES
    oldMounted,          \* the legacy MapboxMap is mounted
    oldLoadFired,        \* its map has emitted 'load'
    oldStyleLoaded,      \* mapRef.current.isStyleLoaded() of its map
    currentRegionRef,    \* currentRegionRef.current: 0 is a place that is
                         \* none of the regions
    animationFrameRef,   \* animationFrameRef.current: 0 is null
    pendingFrames,       \* handles of the hover frame callbacks the browser
                         \* has scheduled and not yet run or cancelled
    hoverTimers,         \* pending setTimeout(startHoverAnimation) timers
    lastCancelHit        \* the latest cancelAnimationFrame call removed a
                         \* scheduled callback

oldVars == <<oldMounted, oldLoadFired, oldStyleLoaded, currentRegionRef,
             animationFrameRef, pendingFrames, hoverTimers, lastCancelHit>>

visVars == <<visibleSections, activeSection, sectionProgress,
             lastIsIntersecting, prevActiveSection, sectionChanges>>

flyVars == <<hookMounted, mapInstance, isAnimatingRef, animationPromiseRef,
             promises, listeners>>

mapVars == <<mounted, mapRef, mapsCreated, loadFired, styleLoaded, isLoaded,
             error, timers, loops, lastPush, loopMaps, uncaught, flying>>

vars == <<mapVars, visVars, flyVars, kernelVars, oldVars, orchVars, clipVars, debVars, thrVars, scrollVars, obsVars>>

\* the segment a closure is playing
ActiveSegment(l) == l.animationIndex % NumAnimations

\* a variant of lessThanDuration that compares exact multiples of 1/60
lessThanDurationExact(n, idx) == n < duration(idx)

\* `animationTime < current.duration` on doubles, n additions of 1.0/60.0
lessThanDuration(n, idx) == n <= duration(idx)

\* `animationTime > current.duration` on doubles, n additions of 1.0/60.0
exceedsDuration(n, idx) == n > duration(idx)

\* `if (animationTime < current.duration) current.animate(phase)`
animatePushes(l) == lessThanDuration(l.animationTime, ActiveSegment(l))

\* a variant of phase that divides by the duration of the following segment
phaseOfNext(l) ==
    [num |-> l.animationTime,
     den |-> duration((ActiveSegment(l) + 1) % NumAnimations)]

\* `const phase = animationTime / current.duration`, as the fraction num/den
\* of frame counts
phase(l) ==
    [num |-> l.animationTime, den |-> duration(ActiveSegment(l))]

\* a variant of animate that carries the excess time into the next segment
animateCarry(l) ==
    LET idx == l.animationIndex % NumAnimations
        t   == l.animationTime + 1
    IN  IF exceedsDuration(t, idx)
        THEN [animationIndex |-> idx + 1, animationTime |-> t - duration(idx),
              frames |-> l.frames + 1]
        ELSE [animationIndex |-> idx, animationTime |-> t,
              frames |-> l.frames + 1]

\* a variant of animate that leaves a segment as soon as its duration is reached
animateAtDuration(l) ==
    LET idx == l.animationIndex % NumAnimations
        t   == l.animationTime + 1
    IN  IF t >= duration(idx)
        THEN [animationIndex |-> idx + 1, animationTime |-> 0,
              frames |-> l.frames + 1]
        ELSE [animationIndex |-> idx, animationTime |-> t,
              frames |-> l.frames + 1]

\* a variant of animate that steps over a segment
animateSkip(l) ==
    LET idx == l.animationIndex % NumAnimations
        t   == l.animationTime + 1
    IN  IF exceedsDuration(t, idx)
        THEN [animationIndex |-> idx + 2, animationTime |-> 0,
              frames |-> l.frames + 1]
        ELSE [animationIndex |-> idx, animationTime |-> t,
              frames |-> l.frames + 1]

\* a variant of animate that stays in the last segment instead of wrapping
animateNoWrap(l) ==
    LET idx == l.animationIndex % NumAnimations
        t   == l.animationTime + 1
    IN  IF exceedsDuration(t, idx)
        THEN [animationIndex |-> IF idx + 1 = NumAnimations THEN idx
                                 ELSE idx + 1,
              animationTime |-> 0, frames |-> l.frames + 1]
        ELSE [animationIndex |-> idx, animationTime |-> t,
              frames |-> l.frames + 1]

\* one invocation of the frame callback with a map present: the closure's
\* animationIndex and animationTime afterwards (frames counts invocations)
animate(l) ==
    LET idx == l.animationIndex % NumAnimations
        t   == l.animationTime + 1
    IN  IF exceedsDuration(t, idx)
        THEN [animationIndex |-> idx + 1, animationTime |-> 0,
              frames |-> l.frames + 1]
        ELSE [animationIndex |-> idx, animationTime |-> t,
              frames |-> l.frames + 1]

PushNow ==
    [map |-> mapRef, ready |-> styleLoaded, errored |-> error,
     flying |-> flying]

\* startCinematicTour: a new closure (animationIndex 0, animationTime 0) whose
\* animate() runs once synchronously and requests the next frame
startCinematicTour ==
    IF mapRef = 0 \/ ~styleLoaded
    THEN UNCHANGED <<loops, lastPush, loopMaps>>
    ELSE /\ loops' = Append(loops, animate([animationIndex |-> 0,
                                            animationTime |-> 0,
                                            frames |-> 0]))
         /\ lastPush' = PushNow
         /\ loopMaps' = Append(loopMaps, mapRef)

MapInit ==
    /\ mounted = TRUE
    /\ mapRef = 1
    /\ mapsCreated = 1
    /\ loadFired = FALSE
    /\ styleLoaded = FALSE
    /\ isLoaded = FALSE
    /\ error = FALSE
    /\ timers = 0
    /\ loops = <<>>
    /\ lastPush = NoPush
    /\ loopMaps = <<>>
    /\ uncaught = FALSE
    /\ flying = FALSE

\* map.on('load', ...): state updates and the 3 second auto-start timer
MapLoad ==
    /\ mapRef # 0
    /\ ~loadFired
    /\ loadFired' = TRUE
    /\ styleLoaded' = TRUE
    /\ isLoaded' = TRUE
    /\ error' = FALSE
    /\ timers' = timers + 1
    /\ UNCHANGED <<mounted, mapRef, mapsCreated, loops, lastPush, loopMaps,
                   uncaught, flying>>
    /\ UNCHANGED <<visVars, flyVars, kernelVars, oldVars, orchVars, clipVars, debVars, thrVars, scrollVars, obsVars>>

\* the auto-start timer fires (it is never cleared)
AutoStart ==
    /\ timers > 0
    /\ Len(loops) < MaxLoops
    /\ timers' = timers - 1
    /\ startCinematicTour
    /\ UNCHANGED <<mounted, mapRef, mapsCreated, loadFired, styleLoaded,
                   isLoaded, error, uncaught, flying>>
    /\ UNCHANGED <<visVars, flyVars, kernelVars, oldVars, orchVars, clipVars, debVars, thrVars, scrollVars, obsVars>>

\* the parent calls ref.startCinematicTour()
RefStartCinematicTour ==
    /\ mounted
    /\ Len(loops) < MaxLoops
    /\ startCinematicTour
    /\ UNCHANGED <<mounted, mapRef, mapsCreated, loadFired, styleLoaded,
                   isLoaded, error, timers, uncaught, flying>>
    /\ UNCHANGED <<visVars, flyVars, kernelVars, oldVars, orchVars, clipVars, debVars, thrVars, scrollVars, obsVars>>

\* the map starts or finishes (re)loading style and source data
StyleChange ==
    /\ mapRef # 0
    /\ loadFired
    /\ styleLoaded' = ~styleLoaded
    /\ UNCHANGED <<mounted, mapRef, mapsCreated, loadFired, isLoaded, error,
                   timers, loops, lastPush, loopMaps, uncaught, flying>>
    /\ UNCHANGED <<visVars, flyVars, kernelVars, oldVars, orchVars, clipVars, debVars, thrVars, scrollVars, obsVars>>

\* map.on('error', ...)
MapError ==
    /\ mapRef # 0
    /\ error' = TRUE
    /\ isLoaded' = FALSE
    /\ UNCHANGED <<mounted, mapRef, mapsCreated, loadFired, styleLoaded,
                   timers, loops, lastPush, loopMaps, uncaught, flying>>
    /\ UNCHANGED <<visVars, flyVars, kernelVars, oldVars, orchVars, clipVars, debVars, thrVars, scrollVars, obsVars>>

\* a dependency of the effect changes: its cleanup removes the map, then the
\* effect runs again; it creates no map while the error view is rendered
\* (the container ref is null then)
Reinit ==
    /\ mounted
    /\ mapsCreated < MaxMaps
    /\ IF error
       THEN mapRef' = 0 /\ UNCHANGED mapsCreated
       ELSE mapRef' = mapsCreated + 1 /\ mapsCreated' = mapsCreated + 1
    /\ loadFired' = FALSE
    /\ styleLoaded' = FALSE
    /\ flying' = FALSE
    /\ UNCHANGED <<mounted, isLoaded, error, timers, loops, lastPush,
                   loopMaps, uncaught>>
    /\ UNCHANGED <<visVars, flyVars, kernelVars, oldVars, orchVars, clipVars, debVars, thrVars, scrollVars, obsVars>>

\* the component unmounts: the effect cleanup removes the map
Unmount ==
    /\ mounted
    /\ mounted' = FALSE
    /\ mapRef' = 0
    /\ loadFired' = FALSE
    /\ styleLoaded' = FALSE
    /\ flying' = FALSE
    /\ UNCHANGED <<mapsCreated, isLoaded, error, timers, loops, lastPush,
                   loopMaps, uncaught>>
    /\ UNCHANGED <<visVars, flyVars, kernelVars, oldVars, orchVars, clipVars, debVars, thrVars, scrollVars, obsVars>>

\* the parent calls ref.flyTo(region); valid: region.center is a pair of
\* numbers mapboxgl accepts, else mapRef.current.flyTo throws
\* "Invalid LngLat object", which nothing in flyTo catches
flyTo ==
    \E valid \in BOOLEAN :
        /\ mounted
        /\ IF mapRef = 0 \/ ~styleLoaded
           THEN UNCHANGED <<uncaught, flying>>
           ELSE /\ uncaught' = (uncaught \/ ~valid)
                /\ flying' = (flying \/ valid)
        /\ UNCHANGED <<mounted, mapRef, mapsCreated, loadFired, styleLoaded,
                       isLoaded, error, timers, loops, lastPush, loopMaps>>
        /\ UNCHANGED <<visVars, flyVars, kernelVars, oldVars, orchVars, clipVars, debVars, thrVars, scrollVars, obsVars>>

\* the flight of a flyTo call (duration: 4000) ends: the map fires 'moveend'
moveend ==
    /\ flying
    /\ flying' = FALSE
    /\ UNCHANGED <<mounted, mapRef, mapsCreated, loadFired, styleLoaded,
                   isLoaded, error, timers, loops, lastPush, loopMaps,
                   uncaught>>
    /\ UNCHANGED <<visVars, flyVars, kernelVars, oldVars, orchVars, clipVars, debVars, thrVars, scrollVars, obsVars>>

\* one animation frame: the browser runs every outstanding frame callback;
\* each returns at once when mapRef.current is null, else pushes a pose when
\* animationTime < duration, advances its clock and requests the next frame
Frame(limit) ==
    /\ loops # <<>>
    /\ \A i \in 1..Len(loops) : loops[i].frames < limit
    /\ IF mapRef = 0
       THEN loops' = <<>> /\ loopMaps' = <<>> /\ UNCHANGED lastPush
       ELSE /\ loops' = [i \in 1..Len(loops) |-> animate(loops[i])]
            /\ lastPush' = IF \E i \in 1..Len(loops) : animatePushes(loops[i])
                           THEN PushNow ELSE lastPush
            /\ UNCHANGED loopMaps
    /\ UNCHANGED <<mounted, mapRef, mapsCreated, loadFired, styleLoaded,
                   isLoaded, error, timers, uncaught, flying>>
    /\ UNCHANGED <<visVars, flyVars, kernelVars, oldVars, orchVars, clipVars, debVars, thrVars, scrollVars, obsVars>>

\* the invocation count of a closure that runs without end, told apart only
\* up to its second period
secondPeriod(l) ==
    IF l.frames > 2 * Period THEN [l EXCEPT !.frames = l.frames - Period] ELSE l

\* one animation frame of a tour that is followed without end
FrameForever ==
    /\ loops # <<>>
    /\ IF mapRef = 0
       THEN loops' = <<>> /\ loopMaps' = <<>> /\ UNCHANGED lastPush
       ELSE /\ loops' = [i \in 1..Len(loops) |->
                            secondPeriod(animate(loops[i]))]
            /\ lastPush' = IF \E i \in 1..Len(loops) : animatePushes(loops[i])
                           THEN PushNow ELSE lastPush
            /\ UNCHANGED loopMaps
    /\ UNCHANGED <<mounted, mapRef, mapsCreated, loadFired, styleLoaded,
                   isLoaded, error, timers, uncaught, flying>>
    /\ UNCHANGED <<visVars, flyVars, kernelVars, oldVars, orchVars, clipVars, debVars, thrVars, scrollVars, obsVars>>

\* --------------------------------------------------- useSectionVisibility
Sections == 1..NumSections

\* intersection ratios an intersecting entry may report, in tenths: one below
\* the threshold, the threshold itself and two above it
Ratios == {1, 3, 5, 10}

\* the entries an observer of section s can report: an intersecting target
\* with any ratio, a non-intersecting one with ratio 0
EntriesOf(s) ==
    {[sectionId |-> s, isIntersecting |-> TRUE, intersectionRatio |-> r] :
        r \in Ratios}
    \cup {[sectionId |-> s, isIntersecting |-> FALSE, intersectionRatio |-> 0]}

\* the batches one callback of the observer of section s can deliver
BatchesOf(s) ==
    UNION {[1..n -> EntriesOf(s)] : n \in 1..MaxEntries}

\* a variant of isVisible that decides by the ratio and the threshold
isVisibleByRatio(entry) == entry.intersectionRatio >= threshold

\* `const isVisible = entry.isIntersecting`
isVisible(entry) == entry.isIntersecting

\* `isVisible && intersectionRatio > (threshold || 0.3)`
becomesActive(entry) ==
    isVisible(entry) /\ entry.intersectionRatio > (IF threshold # 0 THEN threshold ELSE 3)

\* a variant of the setVisibleSections updater that adds to and deletes from
\* prev itself and returns it
setVisibleSectionsInPlace(prev, entry) ==
    LET changed == IF isVisible(entry)
                   THEN prev \cup {entry.sectionId}
                   ELSE prev \ {entry.sectionId}
    IN  [newSet |-> changed, prev |-> changed]

\* the updater handed to setVisibleSections for one entry: newSet is the set
\* it returns, built from the copy `new Set(prev)`; prev is the content of
\* the set it was given, as the call leaves it
setVisibleSections(prev, entry) ==
    LET copy == prev
    IN  [newSet |-> IF isVisible(entry)
                    THEN copy \cup {entry.sectionId}
                    ELSE copy \ {entry.sectionId},
         prev   |-> prev]

\* the updater handed to setSectionProgress for one entry: newMap is the map
\* it returns, built from the copy `new Map(prev)`; prev is the content of
\* the map it was given, as the call leaves it
setSectionProgress(prev, entry) ==
    LET copy == prev
    IN  [newMap |-> [x \in DOMAIN copy \cup {entry.sectionId} |->
                        IF x = entry.sectionId
                        THEN entry.intersectionRatio ELSE copy[x]],
         prev   |-> prev]

\* the setVisibleSections updaters of a batch, applied in order
RECURSIVE updateVisibleSections(_, _)
updateVisibleSections(prev, entries) ==
    IF entries = <<>> THEN prev
    ELSE updateVisibleSections(
             setVisibleSections(prev, Head(entries)).newSet, Tail(entries))

\* the setSectionProgress updaters of a batch, applied in order
RECURSIVE updateSectionProgress(_, _)
updateSectionProgress(prev, entries) ==
    IF entries = <<>> THEN prev
    ELSE updateSectionProgress(
             setSectionProgress(prev, Head(entries)).newMap, Tail(entries))

\* the setActiveSection calls of a batch, applied in order
RECURSIVE updateActiveSection(_, _)
updateActiveSection(prev, entries) ==
    IF entries = <<>> THEN prev
    ELSE updateActiveSection(
             IF becomesActive(Head(entries))
             THEN Head(entries).sectionId ELSE prev,
             Tail(entries))

\* the onSectionChange calls of a batch, in order
RECURSIVE onSectionChangeCalls(_)
onSectionChangeCalls(entries) ==
    IF entries = <<>> THEN <<>>
    ELSE (IF becomesActive(Head(entries))
          THEN <<Head(entries).sectionId>> ELSE <<>>)
         \o onSectionChangeCalls(Tail(entries))

\* isIntersecting of the latest entry of each section
RECURSIVE updateLastIsIntersecting(_, _)
updateLastIsIntersecting(prev, entries) ==
    IF entries = <<>> THEN prev
    ELSE updateLastIsIntersecting(
             [x \in DOMAIN prev \cup {Head(entries).sectionId} |->
                 IF x = Head(entries).sectionId
                 THEN Head(entries).isIntersecting ELSE prev[x]],
             Tail(entries))

VisInit ==
    /\ visibleSections = {}
    /\ activeSection = 0
    /\ sectionProgress = <<>>
    /\ lastIsIntersecting = <<>>
    /\ prevActiveSection = 0
    /\ sectionChanges = <<>>

\* one callback of an IntersectionObserver: handleIntersection(entries)
handleIntersection ==
    \E s \in Sections : \E entries \in BatchesOf(s) :
        /\ visibleSections' = updateVisibleSections(visibleSections, entries)
        /\ sectionProgress' = updateSectionProgress(sectionProgress, entries)
        /\ activeSection' = updateActiveSection(activeSection, entries)
        /\ sectionChanges' = onSectionChangeCalls(entries)
        /\ prevActiveSection' = activeSection
        /\ lastIsIntersecting' =
               updateLastIsIntersecting(lastIsIntersecting, entries)
        /\ UNCHANGED <<mapVars, flyVars, kernelVars, oldVars, orchVars, clipVars, debVars, thrVars, scrollVars, obsVars>>

\* --------------------------------------------------------- useMapAnimation
\* resolve or reject of promise p is invoked: it settles p when p is pending
settle(ps, p, outcome) ==
    [ps EXCEPT ![p] = [state |-> IF @.state = "pending" THEN outcome
                                 ELSE @.state,
                       calls |-> @.calls + 1,
                       flew  |-> @.flew]]

FlyInit ==
    /\ hookMounted = TRUE
    /\ mapInstance = 0
    /\ isAnimatingRef = FALSE
    /\ animationPromiseRef = 0
    /\ promises = <<>>
    /\ listeners = {}

\* the parent passes another mapInstance (null before the map has loaded)
SetMapInstance ==
    /\ hookMounted
    /\ mapInstance' = 1 - mapInstance
    /\ UNCHANGED <<hookMounted, isAnimatingRef, animationPromiseRef, promises,
                   listeners>>
    /\ UNCHANGED <<mapVars, visVars, kernelVars, oldVars, orchVars, clipVars, debVars, thrVars, scrollVars, obsVars>>

\* a variant of flyToRegion that refuses a call only when there is no map
flyToRegionUnguarded ==
    \E throws \in BOOLEAN :
        LET p == Len(promises) + 1 IN
        /\ hookMounted
        /\ Len(promises) < MaxFlights
        /\ IF mapInstance = 0
           THEN /\ ~throws
                /\ promises' = Append(promises,
                       [state |-> "resolved_false", calls |-> 1,
                        flew |-> FALSE])
                /\ UNCHANGED <<isAnimatingRef, animationPromiseRef, listeners>>
           ELSE /\ animationPromiseRef' = p
                /\ IF throws
                   THEN /\ isAnimatingRef' = FALSE
                        /\ promises' = Append(promises,
                               [state |-> "rejected", calls |-> 1,
                                flew |-> TRUE])
                        /\ UNCHANGED listeners
                   ELSE /\ isAnimatingRef' = TRUE
                        /\ promises' = Append(promises,
                               [state |-> "pending", calls |-> 0,
                                flew |-> TRUE])
                        /\ listeners' = listeners \cup {p}
        /\ UNCHANGED <<hookMounted, mapInstance>>
        /\ UNCHANGED <<mapVars, visVars, kernelVars, oldVars, orchVars, clipVars, debVars, thrVars, scrollVars, obsVars>>

\* flyToRegion(region); throws: mapInstance.flyTo throws synchronously
flyToRegion ==
    \E throws \in BOOLEAN :
        LET p == Len(promises) + 1 IN
        /\ hookMounted
        /\ Len(promises) < MaxFlights
        /\ IF mapInstance = 0 \/ isAnimatingRef
           THEN /\ ~throws
                /\ promises' = Append(promises,
                       [state |-> "resolved_false", calls |-> 1,
                        flew |-> FALSE])
                /\ UNCHANGED <<isAnimatingRef, animationPromiseRef, listeners>>
           ELSE /\ animationPromiseRef' = p
                /\ IF throws
                   THEN /\ isAnimatingRef' = FALSE
                        /\ promises' = Append(promises,
                               [state |-> "rejected", calls |-> 1,
                                flew |-> TRUE])
                        /\ UNCHANGED listeners
                   ELSE /\ isAnimatingRef' = TRUE
                        /\ promises' = Append(promises,
                               [state |-> "pending", calls |-> 0,
                                flew |-> TRUE])
                        /\ listeners' = listeners \cup {p}
        /\ UNCHANGED <<hookMounted, mapInstance>>
        /\ UNCHANGED <<mapVars, visVars, kernelVars, oldVars, orchVars, clipVars, debVars, thrVars, scrollVars, obsVars>>

\* the map fires 'moveend': every registered onMoveEnd runs; the first one
\* resolves the promise held in animationPromiseRef and clears the ref
onMoveEnd ==
    /\ listeners # {}
    /\ isAnimatingRef' = FALSE
    /\ listeners' = {}
    /\ promises' = IF animationPromiseRef # 0
                   THEN settle(promises, animationPromiseRef, "resolved_true")
                   ELSE promises
    /\ animationPromiseRef' = 0
    /\ UNCHANGED <<hookMounted, mapInstance>>
    /\ UNCHANGED <<mapVars, visVars, kernelVars, oldVars, orchVars, clipVars, debVars, thrVars, scrollVars, obsVars>>

\* the map fires 'error': every registered onError runs; the first one
\* rejects the promise held in animationPromiseRef and clears the ref
onError ==
    /\ listeners # {}
    /\ isAnimatingRef' = FALSE
    /\ listeners' = {}
    /\ promises' = IF animationPromiseRef # 0
                   THEN settle(promises, animationPromiseRef, "rejected")
                   ELSE promises
    /\ animationPromiseRef' = 0
    /\ UNCHANGED <<hookMounted, mapInstance>>
    /\ UNCHANGED <<mapVars, visVars, kernelVars, oldVars, orchVars, clipVars, debVars, thrVars, scrollVars, obsVars>>

\* the cleanup of the hook's effect on unmount
FlyUnmount ==
    /\ hookMounted
    /\ hookMounted' = FALSE
    /\ promises' = IF animationPromiseRef # 0
                   THEN settle(promises, animationPromiseRef, "resolved_false")
                   ELSE promises
    /\ animationPromiseRef' = 0
    /\ isAnimatingRef' = FALSE
    /\ UNCHANGED <<mapInstance, listeners>>
    /\ UNCHANGED <<mapVars, visVars, kernelVars, oldVars, orchVars, clipVars, debVars, thrVars, scrollVars, obsVars>>

\* ------------------------------------------- MapboxMap: lerp and the easings
\* numbers are integers; a value of lerp or of an easing is the exact
\* fraction num/den; t is k/TSteps
Coords == -MaxCoord..MaxCoord

Numbers == [kind : {"number"}, v : Coords]

Vectors == [kind : {"array"}, v : Coords \X Coords]

isArray(x) == x.kind = "array"

\* a number or a pair of numbers as fractions
exact(x) ==
    IF isArray(x)
    THEN [kind |-> "array",
          v |-> <<[num |-> x.v[1], den |-> 1], [num |-> x.v[2], den |-> 1]>>]
    ELSE [kind |-> "number", v |-> [num |-> x.v, den |-> 1]]

\* r, a value of lerp, is the number or the pair x
equals(r, x) ==
    /\ r.kind = x.kind
    /\ IF isArray(x)
       THEN /\ r.v[1].num = x.v[1] * r.v[1].den
            /\ r.v[2].num = x.v[2] * r.v[2].den
       ELSE r.v.num = x.v * r.v.den

\* a variant of lerp with the two weights exchanged
lerpSwapped(a, b, k) ==
    IF isArray(a) /\ isArray(b)
    THEN [kind |-> "array",
          v |-> <<[num |-> a.v[1] * k + b.v[1] * (TSteps - k), den |-> TSteps],
                  [num |-> a.v[2] * k + b.v[2] * (TSteps - k), den |-> TSteps]>>]
    ELSE IF ~isArray(a) /\ ~isArray(b)
    THEN [kind |-> "number",
          v |-> [num |-> a.v * k + b.v * (TSteps - k), den |-> TSteps]]
    ELSE exact(a)

\* lerp(a, b, t) with t = k/TSteps: a*(1.0 - t) + b*t, component by
\* component for two arrays, and a itself when only one of them is an array
lerp(a, b, k) ==
    IF isArray(a) /\ isArray(b)
    THEN [kind |-> "array",
          v |-> <<[num |-> a.v[1] * (TSteps - k) + b.v[1] * k, den |-> TSteps],
                  [num |-> a.v[2] * (TSteps - k) + b.v[2] * k, den |-> TSteps]>>]
    ELSE IF ~isArray(a) /\ ~isArray(b)
    THEN [kind |-> "number",
          v |-> [num |-> a.v * (TSteps - k) + b.v * k, den |-> TSteps]]
    ELSE exact(a)

\* a variant of easeInOutQuad whose second branch lacks the `- 1.0`
easeInOutQuadNoOffset(k) ==
    IF 2 * k < TSteps
    THEN [num |-> 2 * k * k, den |-> TSteps * TSteps]
    ELSE [num |-> (4 * TSteps - 2 * k) * k, den |-> TSteps * TSteps]

\* `t < 0.5 ? 2.0 * t * t : (4.0 - 2.0 * t) * t - 1.0` with t = k/TSteps
easeInOutQuad(k) ==
    IF 2 * k < TSteps
    THEN [num |-> 2 * k * k, den |-> TSteps * TSteps]
    ELSE [num |-> (4 * TSteps - 2 * k) * k - TSteps * TSteps,
          den |-> TSteps * TSteps]

\* `t * t * t`
easeInCubic(k) ==
    [num |-> k * k * k, den |-> TSteps * TSteps * TSteps]

\* `1 - Math.pow(1 - t, 3)`
easeOutCubic(k) ==
    [num |-> TSteps * TSteps * TSteps
                 - (TSteps - k) * (TSteps - k) * (TSteps - k),
     den |-> TSteps * TSteps * TSteps]

Easings == {"easeInOutQuad", "easeInCubic", "easeOutCubic"}

\* the easing function of the given name applied to t = k/TSteps
easing(fn, k) ==
    CASE fn = "easeInOutQuad" -> easeInOutQuad(k)
      [] fn = "easeInCubic"   -> easeInCubic(k)
      [] fn = "easeOutCubic"  -> easeOutCubic(k)

\* no call of lerp or of an easing is being evaluated
NoCall == [fn |-> "none", args |-> <<>>, result |-> <<>>]

KernelInit ==
    kernel = NoCall

\* a pose function calls lerp(a, b, t)
lerpCall ==
    \E a \in Numbers \cup Vectors, b \in Numbers \cup Vectors, k \in 0..TSteps :
        /\ kernel = NoCall
        /\ kernel' = [fn |-> "lerp", args |-> <<a, b, k>>,
                      result |-> lerp(a, b, k)]
        /\ UNCHANGED <<mapVars, visVars, flyVars, oldVars, orchVars, clipVars, debVars, thrVars, scrollVars, obsVars>>

\* a pose function calls one of the easings on its phase
easingCall ==
    \E fn \in Easings, k \in 0..TSteps :
        /\ kernel = NoCall
        /\ kernel' = [fn |-> fn, args |-> <<k>>, result |-> easing(fn, k)]
        /\ UNCHANGED <<mapVars, visVars, flyVars, oldVars, orchVars, clipVars, debVars, thrVars, scrollVars, obsVars>>

\* the pose function has taken the value the call returned
callReturns ==
    /\ kernel # NoCall
    /\ kernel' = NoCall
    /\ UNCHANGED <<mapVars, visVars, flyVars, oldVars, orchVars, clipVars, debVars, thrVars, scrollVars, obsVars>>

\* ------------------------------------------ MapboxMap-old: hover animation
Regions == 1..NumRegions

Handles == 1..MaxHandles

\* handles requestAnimationFrame can return: the browser never returns one
\* that is still scheduled, nor the one the ref holds
FreeHandles(pending, ref) == Handles \ (pending \cup {ref})

\* the handle the next requestAnimationFrame call returns
requestAnimationFrame(pending, ref) ==
    CHOOSE h \in FreeHandles(pending, ref) :
        \A g \in FreeHandles(pending, ref) : h <= g

\* `if (animationFrameRef.current) cancelAnimationFrame(...)`: the scheduled
\* callbacks that remain
cancelAnimationFrame(pending, ref) == pending \ {ref}

OldInit ==
    /\ oldMounted = TRUE
    /\ oldLoadFired = FALSE
    /\ oldStyleLoaded = FALSE
    /\ currentRegionRef = 1
    /\ animationFrameRef = 0
    /\ pendingFrames = {}
    /\ hoverTimers = 0
    /\ lastCancelHit = FALSE

\* a variant of startHoverAnimation that requests its first frame without
\* cancelling the callback the ref holds
startHoverAnimationNoCancel ==
    IF ~oldStyleLoaded
    THEN UNCHANGED <<animationFrameRef, pendingFrames, lastCancelHit>>
    ELSE /\ FreeHandles(pendingFrames, animationFrameRef) # {}
         /\ animationFrameRef' =
                requestAnimationFrame(pendingFrames, animationFrameRef)
         /\ pendingFrames' = pendingFrames \cup {animationFrameRef'}
         /\ UNCHANGED lastCancelHit

\* startHoverAnimation(targetRegion): nothing without a map whose style is
\* loaded; else cancel the callback the ref holds and request the first frame
\* of a new loop
startHoverAnimation ==
    IF ~oldStyleLoaded
    THEN UNCHANGED <<animationFrameRef, pendingFrames, lastCancelHit>>
    ELSE LET remaining ==
                 cancelAnimationFrame(pendingFrames, animationFrameRef)
         IN  /\ FreeHandles(remaining, animationFrameRef) # {}
             /\ animationFrameRef' =
                    requestAnimationFrame(remaining, animationFrameRef)
             /\ pendingFrames' = remaining \cup {animationFrameRef'}
             /\ lastCancelHit' = IF animationFrameRef # 0
                                 THEN animationFrameRef \in pendingFrames
                                 ELSE lastCancelHit

\* the map's 'load' event: the style is loaded and the hover animation is
\* set to start 1000 ms later
OldMapLoad ==
    /\ oldMounted
    /\ ~oldLoadFired
    /\ oldLoadFired' = TRUE
    /\ oldStyleLoaded' = TRUE
    /\ hoverTimers' = hoverTimers + 1
    /\ UNCHANGED <<oldMounted, currentRegionRef, animationFrameRef,
                   pendingFrames, lastCancelHit>>
    /\ UNCHANGED <<mapVars, visVars, flyVars, kernelVars, orchVars, clipVars, debVars, thrVars, scrollVars, obsVars>>

\* isStyleLoaded() changes while the map loads or reloads its sources
OldStyleChange ==
    /\ oldMounted
    /\ oldLoadFired
    /\ oldStyleLoaded' = ~oldStyleLoaded
    /\ UNCHANGED <<oldMounted, oldLoadFired, currentRegionRef,
                   animationFrameRef, pendingFrames, hoverTimers,
                   lastCancelHit>>
    /\ UNCHANGED <<mapVars, visVars, flyVars, kernelVars, orchVars, clipVars, debVars, thrVars, scrollVars, obsVars>>

\* a startHoverAnimation timer fires (the timers are never cleared)
HoverTimerFires ==
    /\ hoverTimers > 0
    /\ hoverTimers' = hoverTimers - 1
    /\ startHoverAnimation
    /\ UNCHANGED <<oldMounted, oldLoadFired, oldStyleLoaded, currentRegionRef>>
    /\ UNCHANGED <<mapVars, visVars, flyVars, kernelVars, orchVars, clipVars, debVars, thrVars, scrollVars, obsVars>>

\* the browser runs a scheduled hover frame callback: it returns when the
\* style is not loaded, else it writes bearing and pitch and requests the
\* next frame, storing the handle in the ref
hoverAnimate ==
    \E h \in pendingFrames :
        /\ IF ~oldStyleLoaded
           THEN /\ pendingFrames' = pendingFrames \ {h}
                /\ UNCHANGED animationFrameRef
           ELSE /\ FreeHandles(pendingFrames \ {h}, animationFrameRef) # {}
                /\ animationFrameRef' =
                       requestAnimationFrame(pendingFrames \ {h},
                                             animationFrameRef)
                /\ pendingFrames' =
                       (pendingFrames \ {h}) \cup {animationFrameRef'}
        /\ UNCHANGED <<oldMounted, oldLoadFired, oldStyleLoaded,
                       currentRegionRef, hoverTimers, lastCancelHit>>
        /\ UNCHANGED <<mapVars, visVars, flyVars, kernelVars, orchVars, clipVars, debVars, thrVars, scrollVars, obsVars>>

\* the parent calls ref.flyTo(newRegion) of the legacy component
oldFlyTo ==
    /\ oldMounted
    /\ IF oldStyleLoaded
       THEN /\ pendingFrames' =
                   cancelAnimationFrame(pendingFrames, animationFrameRef)
            /\ lastCancelHit' = IF animationFrameRef # 0
                                THEN animationFrameRef \in pendingFrames
                                ELSE lastCancelHit
       ELSE UNCHANGED <<pendingFrames, lastCancelHit>>
    /\ UNCHANGED <<oldMounted, oldLoadFired, oldStyleLoaded, currentRegionRef,
                   animationFrameRef, hoverTimers>>
    /\ UNCHANGED <<mapVars, visVars, flyVars, kernelVars, orchVars, clipVars, debVars, thrVars, scrollVars, obsVars>>

\* handleMoveEnd: the ref takes the place the camera has come to rest at
OldMoveEnd ==
    \E r \in Regions \cup {0} :
        /\ oldMounted
        /\ oldLoadFired
        /\ currentRegionRef' = r
        /\ UNCHANGED <<oldMounted, oldLoadFired, oldStyleLoaded,
                       animationFrameRef, pendingFrames, hoverTimers,
                       lastCancelHit>>
        /\ UNCHANGED <<mapVars, visVars, flyVars, kernelVars, orchVars, clipVars, debVars, thrVars, scrollVars, obsVars>>

\* the effect on [initialRegion]: the parent passes region r; with a loaded
\* style and a different place it cancels the hover callback, flies there
\* and sets the hover animation to restart 3500 ms later
RegionChange ==
    \E r \in Regions :
        /\ oldMounted
        /\ IF oldStyleLoaded /\ currentRegionRef # r
           THEN /\ hoverTimers < MaxHoverTimers
                /\ currentRegionRef' = r
                /\ pendingFrames' =
                       cancelAnimationFrame(pendingFrames, animationFrameRef)
                /\ lastCancelHit' = IF animationFrameRef # 0
                                    THEN animationFrameRef \in pendingFrames
                                    ELSE lastCancelHit
                /\ hoverTimers' = hoverTimers + 1
           ELSE UNCHANGED <<currentRegionRef, pendingFrames, lastCancelHit,
                            hoverTimers>>
        /\ UNCHANGED <<oldMounted, oldLoadFired, oldStyleLoaded,
                       animationFrameRef>>
        /\ UNCHANGED <<mapVars, visVars, flyVars, kernelVars, orchVars, clipVars, debVars, thrVars, scrollVars, obsVars>>

\* the cleanup of the mount effect: cancel the callback the ref holds and
\* remove the map, whose isStyleLoaded() is falsy from then on
OldUnmount ==
    /\ oldMounted
    /\ oldMounted' = FALSE
    /\ oldStyleLoaded' = FALSE
    /\ pendingFrames' = cancelAnimationFrame(pendingFrames, animationFrameRef)
    /\ lastCancelHit' = IF animationFrameRef # 0
                        THEN animationFrameRef \in pendingFrames
                        ELSE lastCancelHit
    /\ UNCHANGED <<oldLoadFired, currentRegionRef, animationFrameRef,
                   hoverTimers>>
    /\ UNCHANGED <<mapVars, visVars, flyVars, kernelVars, orchVars, clipVars, debVars, thrVars, scrollVars, obsVars>>

\* ---------------------------------------------------- AnimationOrchestrator
\* the timers of executeAnimation and of wait fire at some later time: how
\* long a config's duration and delay are does not enter the model, whether
\* it has a delay does (`if (config.delay)`)
Configs == [delay : {0, 1}]

\* what a sequence play logs for its items, in order, when it runs to its end
RECURSIVE SequenceLog(_, _)
SequenceLog(items, i) ==
    IF i > Len(items) THEN <<>>
    ELSE <<<<"start", i>>, <<"end", i>>>>
         \o (IF items[i].delay # 0 THEN <<<<"waited", i>>>> ELSE <<>>)
         \o SequenceLog(items, i + 1)

\* the for-of loop of playSequence reaches item i of the play's array: it
\* calls executeAnimation on it, which sets a timer, or the loop and with it
\* the play ends
iterate(p, i) ==
    IF i <= Len(p.items)
    THEN [p EXCEPT !.timers = {[i |-> i, kind |-> "run"]},
                   !.log = Append(p.log, <<"start", i>>)]
    ELSE [p EXCEPT !.timers = {}, !.phase = "done", !.live = FALSE]

\* a variant of afterExecute that goes on to the next item without waiting
afterExecuteNoWait(p, i) ==
    iterate([p EXCEPT !.log = Append(p.log, <<"end", i>>)], i + 1)

\* playSequence after `await this.executeAnimation(config)` of item i:
\* `if (config.delay) await this.wait(config.delay)`, then the next item
afterExecute(p, i) ==
    LET q == [p EXCEPT !.log = Append(p.log, <<"end", i>>)]
    IN  IF p.items[i].delay # 0
        THEN [q EXCEPT !.timers = {[i |-> i, kind |-> "wait"]}]
        ELSE iterate(q, i + 1)

\* playSequence after `await this.wait(config.delay)` of item i
afterWait(p, i) ==
    iterate([p EXCEPT !.log = Append(p.log, <<"waited", i>>)], i + 1)

\* playParallel: executeAnimation on every config at once, Promise.all
playParallel(p) ==
    IF p.items = <<>>
    THEN [p EXCEPT !.phase = "done", !.live = FALSE]
    ELSE [p EXCEPT
             !.live = FALSE,
             !.timers = {[i |-> i, kind |-> "run"] : i \in 1..Len(p.items)},
             !.log = [i \in 1..Len(p.items) |-> <<"start", i>>]]

\* a timer of a parallel play fires: its animation has ended, and the play
\* ends with the last of them
afterParallel(p, t) ==
    LET q == [p EXCEPT !.timers = p.timers \ {t},
                       !.log = Append(p.log, <<"end", t.i>>)]
    IN  IF q.timers = {} THEN [q EXCEPT !.phase = "done"] ELSE q

\* a play() call that has found isPlaying false, before it does anything
NewPlay(mode) ==
    [mode |-> mode, items |-> animationQueue, live |-> TRUE,
     phase |-> "playing", timers |-> {}, log |-> <<>>,
     stopped |-> FALSE, logAtStop |-> 0]

\* the play is executing animations
Executing(p) == p.phase = "playing"

OrchInit ==
    /\ animationQueue = <<>>
    /\ activeAnimations = {}
    /\ isPlaying = FALSE
    /\ plays = <<>>
    /\ queueCalls = 0

\* queue(config): push onto this.animationQueue, the array a sequence play
\* that began before any clear() is still iterating
queue ==
    \E config \in Configs :
        /\ queueCalls < MaxQueue
        /\ queueCalls' = queueCalls + 1
        /\ animationQueue' = Append(animationQueue, config)
        /\ plays' = [n \in 1..Len(plays) |->
                        IF plays[n].live
                        THEN [plays[n] EXCEPT !.items = Append(@, config)]
                        ELSE plays[n]]
        /\ UNCHANGED <<activeAnimations, isPlaying>>
        /\ UNCHANGED <<mapVars, visVars, flyVars, kernelVars, oldVars, clipVars, debVars, thrVars, scrollVars, obsVars>>

\* clear(): this.animationQueue becomes a new empty array; the plays in
\* progress keep the old one
clear ==
    /\ animationQueue # <<>>
    /\ animationQueue' = <<>>
    /\ plays' = [n \in 1..Len(plays) |-> [plays[n] EXCEPT !.live = FALSE]]
    /\ UNCHANGED <<activeAnimations, isPlaying, queueCalls>>
    /\ UNCHANGED <<mapVars, visVars, flyVars, kernelVars, oldVars, clipVars, debVars, thrVars, scrollVars, obsVars>>

\* play(mode): returns at once while isPlaying; else isPlaying is set and the
\* first animation (all of them when parallel) starts; with nothing to run
\* the play ends at once and the finally block resets isPlaying
play ==
    \E mode \in {"sequence", "parallel"} :
        /\ Len(plays) < MaxPlays
        /\ IF isPlaying
           THEN UNCHANGED <<plays, isPlaying>>
           ELSE LET p == IF mode = "sequence"
                         THEN iterate(NewPlay(mode), 1)
                         ELSE playParallel(NewPlay(mode))
                IN  /\ plays' = Append(plays, p)
                    /\ isPlaying' = Executing(p)
        /\ UNCHANGED <<animationQueue, activeAnimations, queueCalls>>
        /\ UNCHANGED <<mapVars, visVars, flyVars, kernelVars, oldVars, clipVars, debVars, thrVars, scrollVars, obsVars>>

\* a setTimeout of executeAnimation or of wait fires in play n; when this
\* ends the play, the finally block of play() resets isPlaying
timerFires ==
    \E n \in 1..Len(plays) : \E t \in plays[n].timers :
        /\ LET p == plays[n]
               q == IF p.mode = "parallel" THEN afterParallel(p, t)
                    ELSE IF t.kind = "run" THEN afterExecute(p, t.i)
                    ELSE afterWait(p, t.i)
           IN  /\ plays' = [plays EXCEPT ![n] = q]
               /\ isPlaying' = IF Executing(q) THEN isPlaying ELSE FALSE
        /\ UNCHANGED <<animationQueue, activeAnimations, queueCalls>>
        /\ UNCHANGED <<mapVars, visVars, flyVars, kernelVars, oldVars, clipVars, debVars, thrVars, scrollVars, obsVars>>

\* stop(): stop and forget the controls in activeAnimations (nothing ever
\* puts one there) and reset isPlaying; the timers of the plays in progress
\* are not touched
stop ==
    /\ activeAnimations' = {}
    /\ isPlaying' = FALSE
    /\ plays' = [n \in 1..Len(plays) |->
                    IF Executing(plays[n]) /\ ~plays[n].stopped
                    THEN [plays[n] EXCEPT !.stopped = TRUE,
                                          !.logAtStop = Len(plays[n].log)]
                    ELSE plays[n]]
    /\ UNCHANGED <<animationQueue, queueCalls>>
    /\ UNCHANGED <<mapVars, visVars, flyVars, kernelVars, oldVars, clipVars, debVars, thrVars, scrollVars, obsVars>>

\* ------------------------------------------- ContactSection: copyToClipboard
\* the contact methods whose cards copy their value
Labels == {"Email", "Phone"}

ClipInit ==
    /\ copiedItem = ""
    /\ dismissTimers = <<>>
    /\ lastCopied = ""
    /\ sinceCopy = 0

\* copyToClipboard(text, label) once navigator.clipboard.writeText has
\* settled: when it resolved, the label is shown and a dismiss timer is set;
\* when it rejected, the error is logged
copyToClipboard ==
    \E label \in Labels, written \in BOOLEAN :
        /\ Len(dismissTimers) < MaxCopyTimers
        /\ IF written
           THEN /\ copiedItem' = label
                /\ dismissTimers' = Append(dismissTimers, copiedDelay)
                /\ lastCopied' = label
                /\ sinceCopy' = 0
           ELSE UNCHANGED clipVars
        /\ UNCHANGED <<mapVars, visVars, flyVars, kernelVars, oldVars, orchVars, debVars, thrVars, scrollVars, obsVars>>

\* a dismiss timer is due and fires: setCopiedItem(null)
dismissTimerFires ==
    /\ dismissTimers # <<>>
    /\ Head(dismissTimers) = 0
    /\ copiedItem' = ""
    /\ dismissTimers' = Tail(dismissTimers)
    /\ UNCHANGED <<lastCopied, sinceCopy>>
    /\ UNCHANGED <<mapVars, visVars, flyVars, kernelVars, oldVars, orchVars, debVars, thrVars, scrollVars, obsVars>>

\* 500 ms pass; a timer that is due fires before more time passes
clipTick ==
    /\ dismissTimers # <<>>
    /\ \A i \in 1..Len(dismissTimers) : dismissTimers[i] > 0
    /\ dismissTimers' =
           [i \in 1..Len(dismissTimers) |-> dismissTimers[i] - 1]
    /\ sinceCopy' = IF sinceCopy < copiedDelay THEN sinceCopy + 1
                    ELSE sinceCopy
    /\ UNCHANGED <<copiedItem, lastCopied>>
    /\ UNCHANGED <<mapVars, visVars, flyVars, kernelVars, oldVars, orchVars, debVars, thrVars, scrollVars, obsVars>>

\* ------------------------------------------------- animationUtils.debounce
\* the arguments a call passes
Args == {"a", "b"}

DebInit ==
    /\ debWait = 0
    /\ timeout = 0
    /\ debTimers = {}
    /\ debCalls = 0
    /\ debLastArgs = ""
    /\ debSinceCall = 0
    /\ debBurst = 0
    /\ debInvoked = <<>>

\* `clearTimeout(timeout)`: the pending timers that remain
clearTimeout(pending, id) == {t \in pending : t.id # id}

\* a variant of debounced that leaves the timer of the call before in place
debouncedNoClear(pending, id, newId, args) ==
    pending \cup {[id |-> newId, left |-> debWait, args |-> args]}

\* the function debounce returns, called with args: the timer of the call
\* before is cleared and a new one is set; the pending timers afterwards
debounced(pending, id, newId, args) ==
    clearTimeout(pending, id)
        \cup {[id |-> newId, left |-> debWait, args |-> args]}

\* animationUtils.debounce(func, wait)
debounce ==
    \E wait \in 1..MaxWait :
        /\ debWait = 0
        /\ debWait' = wait
        /\ UNCHANGED <<timeout, debTimers, debCalls, debLastArgs,
                       debSinceCall, debBurst, debInvoked>>
        /\ UNCHANGED <<mapVars, visVars, flyVars, kernelVars, oldVars, orchVars, clipVars, thrVars, scrollVars, obsVars>>

\* a call of the debounced function
debouncedCall ==
    \E args \in Args :
        /\ debWait # 0
        /\ debCalls < MaxCalls
        /\ debCalls' = debCalls + 1
        /\ debTimers' = debounced(debTimers, timeout, debCalls + 1, args)
        /\ timeout' = debCalls + 1
        /\ debLastArgs' = args
        /\ debBurst' = IF debCalls > 0 /\ debSinceCall < debWait
                       THEN debBurst + 1 ELSE 1
        /\ debSinceCall' = 0
        /\ debInvoked' = <<>>
        /\ UNCHANGED debWait
        /\ UNCHANGED <<mapVars, visVars, flyVars, kernelVars, oldVars, orchVars, clipVars, thrVars, scrollVars, obsVars>>

\* a timer is due and fires: `func.apply(null, args)`
debTimerFires ==
    \E t \in debTimers :
        /\ t.left = 0
        /\ debTimers' = debTimers \ {t}
        /\ debInvoked' = Append(debInvoked,
                                [args |-> t.args, at |-> debSinceCall])
        /\ UNCHANGED <<debWait, timeout, debCalls, debLastArgs, debSinceCall,
                       debBurst>>
        /\ UNCHANGED <<mapVars, visVars, flyVars, kernelVars, oldVars, orchVars, clipVars, thrVars, scrollVars, obsVars>>

\* a tick passes; a timer that is due fires before more time passes
debTick ==
    /\ debCalls > 0
    /\ debSinceCall <= debWait
    /\ \A t \in debTimers : t.left > 0
    /\ debTimers' = {[t EXCEPT !.left = t.left - 1] : t \in debTimers}
    /\ debSinceCall' = debSinceCall + 1
    /\ UNCHANGED <<debWait, timeout, debCalls, debLastArgs, debBurst,
                   debInvoked>>
    /\ UNCHANGED <<mapVars, visVars, flyVars, kernelVars, oldVars, orchVars, clipVars, thrVars, scrollVars, obsVars>>

\* ------------------------------------------------- animationUtils.throttle
ThrInit ==
    /\ thrLimit = 0
    /\ inThrottle = FALSE
    /\ thrTimers = {}
    /\ thrCalls = 0
    /\ thrSinceInvoke = 0
    /\ thrLastGap = -1

\* animationUtils.throttle(func, limit)
throttle ==
    \E limit \in 1..MaxWait :
        /\ thrLimit = 0
        /\ thrLimit' = limit
        /\ UNCHANGED <<inThrottle, thrTimers, thrCalls, thrSinceInvoke,
                       thrLastGap>>
        /\ UNCHANGED <<mapVars, visVars, flyVars, kernelVars, oldVars, orchVars, clipVars, debVars, scrollVars, obsVars>>

\* a call of the throttled function. In the window it is dropped. Else
\* `func.apply(null, args)` runs first; when func returns, inThrottle is set
\* and the timer that resets it is started; when func throws, the exception
\* leaves the wrapper before either has happened
throttledCall ==
    \E throws \in BOOLEAN :
        /\ thrLimit # 0
        /\ thrCalls < MaxCalls
        /\ thrCalls' = thrCalls + 1
        /\ IF inThrottle
           THEN UNCHANGED <<inThrottle, thrTimers, thrSinceInvoke, thrLastGap>>
           ELSE /\ thrLastGap' = IF thrCalls > 0 THEN thrSinceInvoke
                                 ELSE thrLastGap
                /\ thrSinceInvoke' = 0
                /\ IF throws
                   THEN UNCHANGED <<inThrottle, thrTimers>>
                   ELSE /\ inThrottle' = TRUE
                        /\ thrTimers' = thrTimers \cup {thrLimit}
        /\ UNCHANGED thrLimit
        /\ UNCHANGED <<mapVars, visVars, flyVars, kernelVars, oldVars, orchVars, clipVars, debVars, scrollVars, obsVars>>

\* a timer is due and fires: `inThrottle = false`
thrTimerFires ==
    /\ 0 \in thrTimers
    /\ thrTimers' = thrTimers \ {0}
    /\ inThrottle' = FALSE
    /\ UNCHANGED <<thrLimit, thrCalls, thrSinceInvoke, thrLastGap>>
    /\ UNCHANGED <<mapVars, visVars, flyVars, kernelVars, oldVars, orchVars, clipVars, debVars, scrollVars, obsVars>>

\* a tick passes; a timer that is due fires before more time passes
thrTick ==
    /\ thrCalls > 0
    /\ 0 \notin thrTimers
    /\ thrTimers # {} \/ thrSinceInvoke < thrLimit
    /\ thrTimers' = {left - 1 : left \in thrTimers}
    /\ thrSinceInvoke' = IF thrSinceInvoke < thrLimit
                         THEN thrSinceInvoke + 1 ELSE thrSinceInvoke
    /\ UNCHANGED <<thrLimit, inThrottle, thrCalls, thrLastGap>>
    /\ UNCHANGED <<mapVars, visVars, flyVars, kernelVars, oldVars, orchVars, clipVars, debVars, scrollVars, obsVars>>

\* ----------------------------------------------------------- useScrollProgress
ScrollInit ==
    /\ totalSections = 0
    /\ scrollYProgress = 0
    /\ currentSection = 0

\* a variant of sectionIndex that maps the progress onto [0, totalSections]
\* and does not clamp the rounded value
sectionIndexUnclamped(k, total) ==
    (2 * k * total + ScrollSteps) \div (2 * ScrollSteps)

\* the section index published for scrollYProgress = k/ScrollSteps:
\* useTransform maps [0, 1] onto [0, totalSections - 1], Math.round takes
\* the nearest integer (halves upwards), and the result is clamped by
\* Math.max(0, Math.min(sectionIndex, totalSections - 1))
sectionIndex(k, total) ==
    LET rounded ==
            (2 * k * (total - 1) + ScrollSteps) \div (2 * ScrollSteps)
        capped == IF rounded < total - 1 THEN rounded ELSE total - 1
    IN  IF capped > 0 THEN capped ELSE 0

\* the page mounts useScrollProgress(totalSections)
useScrollProgress ==
    \E total \in 1..MaxSections :
        /\ totalSections = 0
        /\ totalSections' = total
        /\ UNCHANGED <<scrollYProgress, currentSection>>
        /\ UNCHANGED <<mapVars, visVars, flyVars, kernelVars, oldVars, orchVars, clipVars, debVars, thrVars, obsVars>>

\* the page is scrolled: scrollYProgress changes and the "change" listener
\* of sectionProgress publishes the section index
onScrollChange ==
    \E k \in 0..ScrollSteps :
        /\ totalSections # 0
        /\ k # scrollYProgress
        /\ scrollYProgress' = k
        /\ currentSection' = sectionIndex(k, totalSections)
        /\ UNCHANGED totalSections
        /\ UNCHANGED <<mapVars, visVars, flyVars, kernelVars, oldVars, orchVars, clipVars, debVars, thrVars, obsVars>>

\* ------------------------------------- useSectionVisibility: the observers
\* the hook is mounted with all the sections and an empty page: the first
\* effect has made the observers, the second has found no element
ObsInit ==
    /\ sections = Sections
    /\ observersRef = [s \in Sections |-> 1]
    /\ elementsRef = {}
    /\ document = {}
    /\ observing = {}

\* the sections checkAndObserveElements starts to observe: those with an
\* element, an observer and no key in elementsRef
newlyObserved(secs, observers, elements, doc) ==
    {s \in secs : s \in doc /\ s \in DOMAIN observers /\ s \notin elements}

\* a section's element is added to the page
elementAppears ==
    \E s \in Sections \ document :
        /\ document' = document \cup {s}
        /\ UNCHANGED <<sections, observersRef, elementsRef, observing>>
        /\ UNCHANGED <<mapVars, visVars, flyVars, kernelVars, oldVars, orchVars, clipVars, debVars, thrVars, scrollVars>>

\* the interval fires: checkAndObserveElements()
checkAndObserveElements ==
    LET new == newlyObserved(sections, observersRef, elementsRef, document) IN
    /\ observing' = observing \cup {<<observersRef[s], s>> : s \in new}
    /\ elementsRef' = elementsRef \cup new
    /\ UNCHANGED <<sections, observersRef, document>>
    /\ UNCHANGED <<mapVars, visVars, flyVars, kernelVars, oldVars, orchVars, clipVars, debVars, thrVars, scrollVars>>

\* a render with another sections list, handleIntersection or rootMargin:
\* the cleanup of the first effect disconnects the observers and the effect
\* makes new ones; when the sections list is another one the second effect
\* runs again too and calls checkAndObserveElements() at once
observersEffect ==
    \E secs \in SUBSET Sections :
        LET next == 1 + CHOOSE n \in 0..MaxObservers :
                            \A s \in DOMAIN observersRef :
                                observersRef[s] = n
            observers == [s \in secs |-> next]
            new == IF secs = sections THEN {}
                   ELSE newlyObserved(secs, observers, elementsRef, document)
        IN  /\ secs # {}
            /\ next <= MaxObservers
            /\ sections' = secs
            /\ observersRef' = observers
            /\ observing' = {<<next, s>> : s \in new}
            /\ elementsRef' = elementsRef \cup new
            /\ UNCHANGED document
            /\ UNCHANGED <<mapVars, visVars, flyVars, kernelVars, oldVars, orchVars, clipVars, debVars, thrVars, scrollVars>>

\* ----------------------------------------------------------- specifications
Init ==
    MapInit /\ VisInit /\ FlyInit /\ KernelInit /\ OldInit /\ OrchInit
    /\ ClipInit /\ DebInit /\ ThrInit /\ ScrollInit /\ ObsInit

\* the MapboxMap component
Next ==
    \/ MapLoad
    \/ AutoStart
    \/ RefStartCinematicTour
    \/ StyleChange
    \/ MapError
    \/ Reinit
    \/ Unmount
    \/ flyTo
    \/ moveend
    \/ Frame(ShortRun)

Spec == Init /\ [][Next]_vars

\* one tour, started by the auto-start timer, followed over two periods
TourNext ==
    \/ MapLoad
    \/ AutoStart
    \/ StyleChange
    \/ MapError
    \/ Frame(MaxFrames)

SpecTour == Init /\ [][TourNext]_vars

\* one tour on a map that is never removed, with the browser delivering
\* animation frames for ever
TourLiveNext ==
    \/ MapLoad
    \/ AutoStart
    \/ StyleChange
    \/ MapError
    \/ FrameForever

SpecTourLive == Init /\ [][TourLiveNext]_vars /\ WF_vars(FrameForever)

\* the useSectionVisibility hook
VisibilityNext == handleIntersection

SpecVisibility == Init /\ [][VisibilityNext]_vars

\* the useMapAnimation hook
FlyNext ==
    \/ SetMapInstance
    \/ flyToRegion
    \/ onMoveEnd
    \/ onError
    \/ FlyUnmount

SpecFly == Init /\ [][FlyNext]_vars

\* ------------------------------------------------------- the tour's claims
\* a frame callback of closure i ran in this step and requested the next frame
Advanced(i) ==
    /\ i <= Len(loops')
    /\ loops'[i].frames = loops[i].frames + 1

C7_OneCallbackOutstanding == Len(loops) <= 1

\* C8: every pose pushed to the map was pushed while the map reported ready.
C8_PushOnlyWhenReady == lastPush # NoPush => lastPush.ready

\* C9: no pose is pushed to the map after the map emitted an error event.
C9_NoPushAfterError == lastPush # NoPush => ~lastPush.errored

\* ------------------------------------------ the section tracker's claims
\* C3: the active section is null or a member of the visible set.
C3_ActiveIsVisible ==
    activeSection # 0 => activeSection \in visibleSections

\* the visible sections with the maximum reported ratio
MostVisible ==
    {s \in visibleSections :
        \A x \in visibleSections : sectionProgress[x] <= sectionProgress[s]}

\* C4: with a non-empty visible set, the active section is the visible
\* section with the maximum reported ratio, the lowest order index among ties
\* (stated for the states in which every visible section reported a ratio
\* above the threshold, where the claim's visible set and the hook's agree).
C4_ActiveIsMostVisible ==
    (/\ visibleSections # {}
     /\ \A s \in visibleSections : sectionProgress[s] > threshold) =>
        /\ activeSection \in MostVisible
        /\ \A s \in MostVisible : activeSection <= s

\* C5: a callback emits onSectionChange exactly once when it changed the
\* active section and not at all when it left it as it was.
C5_EmittedOncePerChange ==
    Len(sectionChanges) = IF activeSection # prevActiveSection THEN 1 ELSE 0

C10_SettleInvokedOnce ==
    \A p \in 1..Len(promises) : promises[p].calls <= 1

\* C11: once the effect cleanup has removed a map (unmount, or the cleanup
\* that precedes a re-initialisation), no frame callback of a tour started on
\* that map remains scheduled, so none can push a pose to a later map.
C11_NoCallbackSurvivesCleanup ==
    [][\A i \in 1..Len(loops) :
          (Advanced(i) /\ animatePushes(loops[i])) => loopMaps[i] = mapRef]_vars

\* C12: the index of the segment a closure plays is always one of
\* 0..NumAnimations-1; a frame either keeps it or moves it to the next index,
\* and the index after the last one is 0.
C12_SegmentAdvancesCyclically ==
    [][\A i \in 1..Len(loops) :
          Advanced(i) =>
              LET a == ActiveSegment(loops[i])
                  b == ActiveSegment(loops'[i])
              IN  /\ a \in 0..(NumAnimations - 1)
                  /\ b \in 0..(NumAnimations - 1)
                  /\ b = a \/ b = (a + 1) % NumAnimations
                  /\ (a = NumAnimations - 1 /\ b # a) => b = 0]_vars

\* the tour has been through the last segment and has left the first
\* segment again
C12_Witness ==
    \E i \in 1..Len(loops) :
        loops[i].frames > Period /\ ActiveSegment(loops[i]) = 1

\* C15: while a tour is playing, every frame invokes each outstanding
\* callback, the callback computes a pose (animationTime < current.duration
\* holds on every invocation) and it is scheduled again afterwards.
C15_EveryFrameComputesAPose ==
    [][(Len(loops) > 0 /\ loops' # loops) =>
          \A i \in 1..Len(loops) : animatePushes(loops[i]) /\ Advanced(i)]_vars

\* a callback is about to run on the frame at which the elapsed time has
\* reached the duration of its segment
C15_Witness ==
    \E i \in 1..Len(loops) :
        /\ loops[i].frames > 0
        /\ loops[i].animationTime = duration(ActiveSegment(loops[i]))

\* C16: the phase handed to the pose function of a segment is the closure's
\* elapsed time over the duration of the segment it plays, and lies in [0,1].
C16_PhaseWithinUnitInterval ==
    \A i \in 1..Len(loops) :
        animatePushes(loops[i]) =>
            /\ phase(loops[i]).num = loops[i].animationTime
            /\ phase(loops[i]).den = duration(ActiveSegment(loops[i]))
            /\ phase(loops[i]).den > 0
            /\ 0 <= phase(loops[i]).num
            /\ phase(loops[i]).num <= phase(loops[i]).den

\* a 6 s segment is played past the length of the 5 s segment that follows it
C16_Witness ==
    \E i \in 1..Len(loops) :
        /\ ActiveSegment(loops[i]) = 1
        /\ loops[i].animationTime > duration(2)
        /\ animatePushes(loops[i])

\* C14: no error the map throws when it is handed a pose leaves a function
\* of the component: it is caught inside and the caller sees a no-op.
C14_MapErrorsAreCaught ==
    ~uncaught

\* C13: once a tour has been started on a map that stays, and frames keep
\* coming, every one of its segments is played again at some later time, so
\* each segment is active infinitely often.
C13_EverySegmentRecurs ==
    \A seg \in 0..(NumAnimations - 1) :
        [](loops # <<>> =>
            <>(loops # <<>> /\ ActiveSegment(loops[1]) = seg))

\* the tour is in its last segment for the second time
C13_Witness ==
    /\ loops # <<>>
    /\ loops[1].frames > Period
    /\ ActiveSegment(loops[1]) = NumAnimations - 1

KernelNext ==
    \/ lerpCall
    \/ easingCall
    \/ callReturns

SpecKernel == Init /\ [][KernelNext]_vars

\* C18: for two numbers, and for two pairs of numbers, lerp(a, b, 0) is a
\* and lerp(a, b, 1) is b, exactly.
C18_LerpEndpoints ==
    (/\ kernel.fn = "lerp"
     /\ isArray(kernel.args[1]) = isArray(kernel.args[2])) =>
        /\ kernel.args[3] = 0 => equals(kernel.result, kernel.args[1])
        /\ kernel.args[3] = TSteps => equals(kernel.result, kernel.args[2])

\* lerp has returned b for two different pairs at t = 1
C18_Witness ==
    /\ kernel.fn = "lerp"
    /\ isArray(kernel.args[1])
    /\ isArray(kernel.args[2])
    /\ kernel.args[1] # kernel.args[2]
    /\ kernel.args[3] = TSteps
    /\ equals(kernel.result, kernel.args[2])

\* C19: each of easeInOutQuad, easeInCubic and easeOutCubic is 0 at t = 0
\* and 1 at t = 1.
C19_EasingEndpoints ==
    kernel.fn \in Easings =>
        /\ kernel.args[1] = 0 => kernel.result.num = 0
        /\ kernel.args[1] = TSteps => kernel.result.num = kernel.result.den

\* easeInOutQuad has returned 1 at t = 1
C19_Witness ==
    /\ kernel.fn = "easeInOutQuad"
    /\ kernel.args[1] = TSteps
    /\ kernel.result.num = kernel.result.den

\* ------------------------------------------- the legacy component's claims
OldNext ==
    \/ OldMapLoad
    \/ OldStyleChange
    \/ HoverTimerFires
    \/ hoverAnimate
    \/ oldFlyTo
    \/ OldMoveEnd
    \/ RegionChange
    \/ OldUnmount

SpecOld == Init /\ [][OldNext]_vars

\* C20: at most one hover frame callback is scheduled at any time, and it is
\* the one animationFrameRef holds, so whatever starts a new animation
\* (ref.flyTo, a region change, startHoverAnimation) cancels the whole of the
\* previous hover loop and no callback of a cancelled loop is left to write
\* bearing and pitch.
C20_OneHoverLoop ==
    /\ Cardinality(pendingFrames) <= 1
    /\ pendingFrames \subseteq {animationFrameRef}

\* startHoverAnimation has cancelled the scheduled callback of a running
\* hover loop and its own loop is alive
C20_Witness ==
    /\ lastCancelHit
    /\ pendingFrames = {animationFrameRef}
    /\ oldStyleLoaded

\* --------------------------------------- the AnimationOrchestrator's claims
OrchNext ==
    \/ queue
    \/ clear
    \/ play
    \/ timerFires
    \/ stop

SpecOrch == Init /\ [][OrchNext]_vars

\* the orchestrator used without stop(): configs are queued, the queue is
\* cleared and plays are asked for while a play runs
SequenceNext ==
    \/ queue
    \/ clear
    \/ play
    \/ timerFires

SpecSequence == Init /\ [][SequenceNext]_vars

\* C21: once stop() has returned, a play that was in progress starts no
\* further animation and completes none: what it has done stays what it had
\* done when stop() was called.
C21_StopHaltsPlay ==
    \A n \in 1..Len(plays) :
        plays[n].stopped => Len(plays[n].log) = plays[n].logAtStop

\* C23: a sequence play runs its animations one at a time in queue order,
\* each one started only when the one before it has ended and its delay has
\* been waited for, and the play has ended only when all of them have.
C23_SequenceInOrder ==
    \A n \in 1..Len(plays) :
        LET p == plays[n]
            whole == SequenceLog(p.items, 1)
        IN  (p.mode = "sequence" /\ p.phase # "refused") =>
                /\ Len(p.log) <= Len(whole)
                /\ p.log = SubSeq(whole, 1, Len(p.log))
                /\ p.phase = "done" => p.log = whole

\* a sequence play of two animations, the first of them with a delay, has
\* run to its end
C23_Witness ==
    \E n \in 1..Len(plays) :
        /\ plays[n].mode = "sequence"
        /\ plays[n].phase = "done"
        /\ Len(plays[n].items) = 2
        /\ plays[n].items[1].delay # 0
        /\ Len(plays[n].log) = 5

\* C24: at most one play() is executing animations at any time.
C24_OnePlayExecuting ==
    Cardinality({n \in 1..Len(plays) : Executing(plays[n])}) <= 1

\* ------------------------------------------------ the contact section's claim
ClipNext ==
    \/ copyToClipboard
    \/ dismissTimerFires
    \/ clipTick

SpecClip == Init /\ [][ClipNext]_vars

\* C22: for the 2 seconds that follow a successful copy the notification of
\* the copied item is shown, whatever was copied before.
C22_ShownForTwoSeconds ==
    (lastCopied # "" /\ sinceCopy < copiedDelay) => copiedItem = lastCopied

\* ------------------------------------------------- animationUtils' claims
DebounceNext ==
    \/ debounce
    \/ debouncedCall
    \/ debTimerFires
    \/ debTick

SpecDebounce == Init /\ [][DebounceNext]_vars

\* C26: func is not invoked while less than wait has passed since the latest
\* call, so not within a burst; it is invoked once, wait after the latest
\* call and with the args of that call.
C26_DebounceInvokesOnceAfterBurst ==
    debCalls > 0 =>
        /\ Len(debInvoked) <= 1
        /\ debSinceCall < debWait => debInvoked = <<>>
        /\ debSinceCall > debWait => Len(debInvoked) = 1
        /\ \A i \in 1..Len(debInvoked) :
              /\ debInvoked[i].args = debLastArgs
              /\ debInvoked[i].at = debWait

\* func has been invoked after a burst of calls with different args
C26_Witness ==
    /\ debBurst >= 2
    /\ Len(debInvoked) = 1
    /\ debInvoked[1].args = "b"
    /\ debWait > 1

ThrottleNext ==
    \/ throttle
    \/ throttledCall
    \/ thrTimerFires
    \/ thrTick

SpecThrottle == Init /\ [][ThrottleNext]_vars

\* C25: two consecutive invocations of func are at least limit apart.
C25_InvocationsLimitApart ==
    thrLastGap = -1 \/ thrLastGap >= thrLimit

\* ------------------------------------------------- useScrollProgress's claim
ScrollNext ==
    \/ useScrollProgress
    \/ onScrollChange

SpecScroll == Init /\ [][ScrollNext]_vars

\* C27: the published currentSection is an integer of 0..totalSections-1.
C27_CurrentSectionInRange ==
    totalSections # 0 => currentSection \in 0..(totalSections - 1)

\* the page is scrolled to its end and the last of several sections is
\* published
C27_Witness ==
    /\ totalSections > 1
    /\ scrollYProgress = ScrollSteps
    /\ currentSection = totalSections - 1

\* ------------------------------------------------- flyToRegion's flights
\* the flights the map is performing: those whose moveend and error
\* handlers are registered
FlightsInProgress == listeners

ObserversNext ==
    \/ elementAppears
    \/ checkAndObserveElements
    \/ observersEffect

\* the interval keeps firing
SpecObservers ==
    Init /\ [][ObserversNext]_vars /\ WF_vars(checkAndObserveElements)

\* C29: a listed section whose element is in the DOM is eventually observed
\* by the observer that observersRef now holds for it.
C29_PresentSectionsGetObserved ==
    \A s \in Sections :
        (s \in sections /\ s \in document)
            ~> (s \in sections => <<observersRef[s], s>> \in observing)

\* ------------------------------------------------- the flight and the tour
\* C30: the tour writes no camera pose while the flight that a change of the
\* current section started is in progress.
C30_NoPoseDuringFlight == lastPush # NoPush => ~lastPush.flying

====
